---- MODULE Spec2Model ----
(***************************************************************************)
(* A model of poly2 (src/src/poly2/utils.py, src/src/poly2/config.py):     *)
(* the epidemic ODE driver, the dispersal kernel, the three fungicide      *)
(* effect models, the inverse search find_beta, Config construction, the   *)
(* trait grid and its distributions, and the economic yield.               *)
(*                                                                         *)
(* Numbers.  Python floats are modelled by exact rationals on inputs where *)
(* every intermediate value is a rational: a time is an integer, a trait   *)
(* value is 2^-k, a decay rate is a whole number of halvings per HalfLife  *)
(* time units, so that exp() and log() are exact.  A rational is a pair    *)
(* <<numerator, denominator>> with a positive denominator.                 *)
(***************************************************************************)
EXTENDS Integers, Sequences, FiniteSets, TLC

VARIABLES
    \* find_soln_given_beta_and_no_control
    beta_, I0, t_vals, t_out, ind, y_out, solver_y, solver_ok, ode_pc,
    \* get_dispersal_kernel and the yearly use of the kernel
    vec, p, mutation_scale, kernel, dist, year,
    \* Fungicide, FungicideAsymptote, FungicideNoDecay
    T_2, T_3, fung, call,
    \* find_beta
    final_sev, min_out, beta_out, warned,
    \* Config.__init__
    fit, args, config,
    \* edge_values, trait_vec, initial_point_distribution, gamma_dist, beta_dist
    dist_args, dist_out,
    \* economic_yield, economic_yield_mixture
    econ_args, profit

odeVars == <<beta_, I0, t_vals, t_out, ind, y_out, solver_y, solver_ok, ode_pc>>
kernelVars == <<vec, p, mutation_scale, kernel, dist, year>>
fungVars == <<T_2, T_3, fung, call>>
betaVars == <<final_sev, min_out, beta_out, warned>>
configVars == <<fit, args, config>>
distVars == <<dist_args, dist_out>>
econVars == <<econ_args, profit>>
vars == <<odeVars, kernelVars, fungVars, betaVars, configVars, distVars, econVars>>

\* Python's None, for an argument that is a sequence and for an object
NoSeq == <<>>
None == [kind |-> "None"]

RECURSIVE Pow2(_)
Pow2(n) == IF n <= 0 THEN 1 ELSE 2 * Pow2(n - 1)

RECURSIVE SumSeq(_)
SumSeq(s) == IF s = <<>> THEN 0 ELSE Head(s) + SumSeq(Tail(s))

(***************************************************************************)
(* Exact rationals <<numerator, denominator>>, denominator positive.       *)
(***************************************************************************)
RECURSIVE Gcd(_, _)
Gcd(a, b) == IF b = 0 THEN a ELSE Gcd(b, a % b)

Abs(x) == IF x < 0 THEN -x ELSE x

Norm(r) ==
    LET g == Gcd(Abs(r[1]), r[2]) IN
    IF g = 0 THEN r ELSE <<r[1] \div g, r[2] \div g>>

RatAdd(a, b) == Norm(<<a[1] * b[2] + b[1] * a[2], a[2] * b[2]>>)
RatSub(a, b) == Norm(<<a[1] * b[2] - b[1] * a[2], a[2] * b[2]>>)
RatMul(a, b) == Norm(<<a[1] * b[1], a[2] * b[2]>>)
\* a / b for b > 0
RatDiv(a, b) == Norm(<<a[1] * b[2], a[2] * b[1]>>)
RatLt(a, b) == a[1] * b[2] < b[1] * a[2]
RatLe(a, b) == a[1] * b[2] <= b[1] * a[2]

\* x ** 0.5 for a rational whose numerator and denominator are squares
ISqrt(x) == CHOOSE r \in 0..x : r * r = x
RatSqrt(a) == <<ISqrt(a[1]), ISqrt(a[2])>>

\* np.linspace(start, stop, num): num evenly spaced values, both ends included
Linspace(start, stop, num) ==
    [i \in 1..num |->
        IF num = 1 THEN start
        ELSE RatAdd(start, RatMul(<<i - 1, num - 1>>, RatSub(stop, start)))]

\* signal.unit_impulse(N, j), j counted from 0
unit_impulse(N, j) == [i \in 1..N |-> IF i = j + 1 THEN 1 ELSE 0]

edge_values(n) == Linspace(<<0, 1>>, <<1, 1>>, n + 1)

trait_vecLowerEdges(n) ==
    LET edge_vals == edge_values(n)
    IN Linspace(edge_vals[1], edge_vals[n], n)

trait_vec(n) ==
    LET edge_vals == edge_values(n)
        dx == RatMul(<<1, 2>>, RatSub(edge_vals[2], edge_vals[1]))
    IN Linspace(dx, RatSub(<<1, 1>>, dx), n)

(***************************************************************************)
(* The season calendar.  T_1 and T_end are the values the source documents *)
(* ("time (between T_1=1456 and T_end=2515)"); T_2 and T_3 are set in      *)
(* poly2/params.py and are inputs of the model, HalfLife apart or more.    *)
(***************************************************************************)
T_1 == 1456
T_end == 2515
HalfLife == 122

(***************************************************************************)
(* The idle values of the components a specification does not exercise.    *)
(***************************************************************************)
OdeIdle ==
    /\ beta_ = 0 /\ I0 = <<0, 1>> /\ t_vals = NoSeq /\ t_out = <<>> /\ ind = 0
    /\ y_out = <<>> /\ solver_y = None /\ solver_ok = TRUE /\ ode_pc = "idle"

KernelIdle ==
    /\ vec = <<>> /\ p = <<0, 1>> /\ mutation_scale = 0 /\ kernel = <<>>
    /\ dist = <<>> /\ year = 0

FungIdle == T_2 = 0 /\ T_3 = 0 /\ fung = None /\ call = None

BetaIdle == final_sev = <<0, 1>> /\ min_out = None /\ beta_out = None /\ warned = FALSE

ConfigIdle == fit = <<>> /\ args = None /\ config = None

DistIdle == dist_args = None /\ dist_out = None

EconIdle == econ_args = None /\ profit = None

(***************************************************************************)
(* find_soln_given_beta_and_no_control(beta_, I0, t_vals).                 *)
(*                                                                         *)
(* scipy's ode object is a collaborator: integrate(tt) either succeeds,    *)
(* leaving solver.y the state of the trajectory at tt, or fails, leaving   *)
(* solver.y the state where the integration stopped and successful()       *)
(* False.  A state of the trajectory is a record: the initial condition it *)
(* started from and the time it stands at.                                 *)
(***************************************************************************)
MaxLen == 3
MaxI0 == 2
I0Den == 4
MaxBeta == 2

OdeTimes == {T_1 + i * HalfLife : i \in 0..MaxLen} \cup {T_end}

RECURSIVE IncreasingSeqs(_, _)
IncreasingSeqs(S, n) ==
    IF n = 0 THEN {<<>>}
    ELSE {Append(s, t) : s \in IncreasingSeqs(S, n - 1), t \in S}

IsIncreasing(s) == \A i \in 1..(Len(s) - 1) : s[i] < s[i + 1]

TimeGrids ==
    UNION {{s \in IncreasingSeqs(OdeTimes, n) : IsIncreasing(s)} : n \in 2..MaxLen}

\* y0: (area*(1-I0), area*I0), in units of host_growth_initial_area / I0Den
InitialCondition(i0) == <<i0[2] - i0[1], i0[1]>>

ZeroColumn == [kind |-> "zeros", y0 |-> <<0, 0>>, at |-> 0]

TrajectoryState(i0, t) == [kind |-> "state", y0 |-> InitialCondition(i0), at |-> t]

StoppedState(y) == [y EXCEPT !.kind = "stopped"]

\* t_out = linspace(T_1, T_end, 2) when t_vals is None, else t_vals
TimeGrid(tv) == IF tv = NoSeq THEN <<T_1, T_end>> ELSE tv

InitOde ==
    /\ beta_ \in 1..MaxBeta
    /\ I0 \in {<<n, I0Den>> : n \in 1..MaxI0}
    /\ t_vals \in {NoSeq} \cup TimeGrids
    /\ t_out = TimeGrid(t_vals)
    /\ y_out = [i \in 1..Len(t_out) |-> ZeroColumn]
    /\ solver_y = TrajectoryState(I0, t_out[1])
    /\ solver_ok = TRUE
    /\ ind = 0
    /\ ode_pc = "loop"
    /\ KernelIdle /\ FungIdle /\ BetaIdle /\ ConfigIdle /\ DistIdle /\ EconIdle

IntegrateWithoutAdvance(tt, ok) ==
    /\ solver_ok' = ok
    /\ solver_y' = IF ok THEN solver_y ELSE StoppedState(solver_y)

\* solver.integrate(tt): the two outcomes of the integrator
Integrate(tt, ok) ==
    /\ solver_ok' = ok
    /\ solver_y' = IF ok THEN [solver_y EXCEPT !.at = tt] ELSE StoppedState(solver_y)

\* the test the loop makes before it stores and integrates
LoopTest == solver_ok

\* one pass of "for ind, tt in enumerate(t_out[1:])" through its first branch
IntegrateStep ==
    /\ ode_pc = "loop"
    /\ ind < Len(t_out) - 1
    /\ LoopTest
    /\ y_out' = [y_out EXCEPT ![ind + 1] = solver_y]
    /\ \E ok \in BOOLEAN : Integrate(t_out[ind + 2], ok)
    /\ ind' = ind + 1
    /\ UNCHANGED <<beta_, I0, t_vals, t_out, ode_pc>>
    /\ UNCHANGED <<kernelVars, fungVars, betaVars, configVars, distVars, econVars>>

\* the else branch: raise RuntimeError('ode solver unsuccessful')
RaiseUnsuccessful ==
    /\ ode_pc = "loop"
    /\ ind < Len(t_out) - 1
    /\ ~LoopTest
    /\ ode_pc' = "raised"
    /\ UNCHANGED <<beta_, I0, t_vals, t_out, ind, y_out, solver_y, solver_ok>>
    /\ UNCHANGED <<kernelVars, fungVars, betaVars, configVars, distVars, econVars>>

\* after the loop: y_out[:, -1] = solver.y; return y_out
ReturnSoln ==
    /\ ode_pc = "loop"
    /\ ind = Len(t_out) - 1
    /\ y_out' = [y_out EXCEPT ![Len(t_out)] = solver_y]
    /\ ode_pc' = "returned"
    /\ UNCHANGED <<beta_, I0, t_vals, t_out, ind, solver_y, solver_ok>>
    /\ UNCHANGED <<kernelVars, fungVars, betaVars, configVars, distVars, econVars>>

NextOde == IntegrateStep \/ RaiseUnsuccessful \/ ReturnSoln

SpecOde == InitOde /\ [][NextOde]_vars

\* C1: whenever find_soln_given_beta_and_no_control returns, no integrate
\* step (the last and the only one included) was reported unsuccessful,
\* and the final column is not the state an unsuccessful step left.
C1_FailsLoudly ==
    ode_pc = "returned" =>
        /\ solver_ok
        /\ y_out[Len(t_out)].kind # "stopped"

(***************************************************************************)
(* get_dispersal_kernel(vec, p, mutation_scale) and dispersal().           *)
(*                                                                         *)
(* norm.cdf is the standard normal distribution function, tabulated to two *)
(* decimals at the multiples of 1/2: Phi(0), Phi(0.5), ... , and 1 from    *)
(* Phi(3) on.  The inputs put every (edge - loc) / stan_dev on a multiple  *)
(* of 1/2.  A probability out of dispersal() is a whole number of          *)
(* 1/CdfScale, one of the kernel a whole number of 1/KernelDen.            *)
(***************************************************************************)
MaxN == 3
PDen == 2
MaxYears == 2
DistDen == 2

PhiTable == <<50, 69, 84, 93, 98, 99, 100>>

CdfScale == 2 * PhiTable[1]

KernelDen == PDen * CdfScale

\* norm.cdf(x, loc, scale), z = (x - loc) / scale a multiple of 1/2
NormCdf(x, loc, scale) ==
    LET z == RatDiv(RatSub(x, loc), scale)
        k == (2 * Abs(z[1])) \div z[2]
        phi == IF k + 1 >= Len(PhiTable) THEN CdfScale ELSE PhiTable[k + 1]
    IN IF z[1] >= 0 THEN phi ELSE CdfScale - phi

\* np.diff
Diff(s) == [i \in 1..(Len(s) - 1) |-> s[i + 1] - s[i]]

dispersalWithoutTop(v, parent_index, mut_scale) ==
    LET stan_dev == RatSqrt(mut_scale)
        edges == edge_values(Len(v))
        disp == [i \in 1..Len(edges) |-> NormCdf(edges[i], v[parent_index], stan_dev)]
        dispersing == Diff(disp)
        bottom == disp[1]
    IN [i \in 1..Len(dispersing) |-> dispersing[i] + (IF i = 1 THEN bottom ELSE 0)]

dispersal(v, parent_index, mut_scale) ==
    LET stan_dev == RatSqrt(mut_scale)
        edges == edge_values(Len(v))
        disp == [i \in 1..Len(edges) |-> NormCdf(edges[i], v[parent_index], stan_dev)]
        dispersing == Diff(disp)
        top == CdfScale - disp[Len(disp)]
        bottom == disp[1]
        N == Len(dispersing)
    IN [i \in 1..N |->
            dispersing[i] + (IF i = 1 THEN bottom ELSE 0) + (IF i = N THEN top ELSE 0)]

get_dispersal_kernelAllStay(v, pp, mut_scale) ==
    LET N == Len(v) IN
    [parent \in 1..N |->
        LET not_dispersing == unit_impulse(N, parent - 1)
            dispersing == dispersal(v, parent, mut_scale)
        IN [i \in 1..N |->
                pp[1] * dispersing[i] + pp[2] * CdfScale * not_dispersing[i]]]

\* kernel[:, parent] = p*dispersing + (1-p)*not_dispersing; kernel[parent] is
\* the column of parent, in units of 1/KernelDen
get_dispersal_kernel(v, pp, mut_scale) ==
    LET N == Len(v) IN
    [parent \in 1..N |->
        LET not_dispersing == unit_impulse(N, parent - 1)
            dispersing == dispersal(v, parent, mut_scale)
        IN [i \in 1..N |->
                pp[1] * dispersing[i] + (pp[2] - pp[1]) * CdfScale * not_dispersing[i]]]

\* the distributions over n bins whose masses are whole numbers of 1/DistDen
RECURSIVE Compositions(_, _)
Compositions(n, total) ==
    IF n = 1 THEN {<<total>>}
    ELSE UNION {{<<k>> \o c : c \in Compositions(n - 1, total - k)} : k \in 0..total}

\* a standard deviation of q half bins on a grid of n bins
MutationScales(n) == {<<q * q, 4 * n * n>> : q \in {1, 2}}

InitKernel ==
    /\ \E n \in 1..MaxN :
        /\ vec = trait_vec(n)
        /\ mutation_scale \in MutationScales(n)
        /\ \E c \in Compositions(n, DistDen) : dist = [mass |-> c, den |-> DistDen]
    /\ p \in {<<k, PDen>> : k \in 0..PDen}
    /\ kernel = <<>>
    /\ year = 0
    /\ OdeIdle /\ FungIdle /\ BetaIdle /\ ConfigIdle /\ DistIdle /\ EconIdle

BuildKernel ==
    /\ vec # <<>>
    /\ kernel = <<>>
    /\ kernel' = get_dispersal_kernel(vec, p, mutation_scale)
    /\ UNCHANGED <<vec, p, mutation_scale, dist, year>>
    /\ UNCHANGED <<odeVars, fungVars, betaVars, configVars, distVars, econVars>>

\* one year of mutation: next year's distribution is kernel @ dist
ApplyKernel(K, d) ==
    [mass |-> [i \in 1..Len(d.mass) |->
                  SumSeq([j \in 1..Len(d.mass) |-> K[j][i] * d.mass[j]])],
     den |-> d.den * KernelDen]

NextYear ==
    /\ kernel # <<>>
    /\ year < MaxYears
    /\ dist' = ApplyKernel(kernel, dist)
    /\ year' = year + 1
    /\ UNCHANGED <<vec, p, mutation_scale, kernel>>
    /\ UNCHANGED <<odeVars, fungVars, betaVars, configVars, distVars, econVars>>

NextKernel == BuildKernel \/ NextYear

SpecKernel == InitKernel /\ [][NextKernel]_vars

IsDistribution(d) ==
    /\ \A i \in 1..Len(d.mass) : d.mass[i] >= 0
    /\ SumSeq(d.mass) = d.den

\* C2: in every year the distribution is non-negative and its masses sum
\* to 1, whatever kernel get_dispersal_kernel built for p in [0,1] and
\* mutation_scale > 0.
C2_MassPreserved == dist # <<>> => IsDistribution(dist)

C2_Witness ==
    /\ year = 2 /\ Len(vec) >= 2
    /\ p[1] > 0
    /\ \E i \in 1..Len(vec) : dist.mass[i] > 0 /\ dist.mass[i] < dist.den

\* C3: every column of the kernel sums to 1; so does every dispersal()
\* vector, whose first bin holds all the Gaussian mass below edge 1 and whose
\* last bin all the mass above the last inner edge.
C3_ColumnsSumToOne ==
    kernel # <<>> =>
        \A parent \in 1..Len(vec) :
            LET d == dispersal(vec, parent, mutation_scale)
                edges == edge_values(Len(vec))
                N == Len(vec)
            IN /\ SumSeq(kernel[parent]) = KernelDen
               /\ SumSeq(d) = CdfScale
               /\ N >= 2 => d[1] = NormCdf(edges[2], vec[parent], RatSqrt(mutation_scale))
               /\ N >= 2 => d[N] = CdfScale
                                 - NormCdf(edges[N], vec[parent], RatSqrt(mutation_scale))

C3_Witness ==
    /\ kernel # <<>> /\ Len(vec) >= 2
    /\ p[1] > 0 /\ p[1] < p[2]
    /\ NormCdf(<<0, 1>>, vec[1], RatSqrt(mutation_scale)) > 0
    /\ \E i \in 1..Len(vec) : kernel[1][i] > 0 /\ kernel[1][i] < KernelDen

(***************************************************************************)
(* Fungicide, FungicideAsymptote, FungicideNoDecay.                        *)
(*                                                                         *)
(* Units.  A curvature is a whole number of ln 2, so that log(1/x) of the  *)
(* trait value x = 2^-k is k; a decay rate is a whole number of halvings   *)
(* per HalfLife time units, FUNG_DECAY_RATE being one; exp(-c) of c ln 2   *)
(* is 2^-c.  effect() is sampled where these exponents are whole numbers.  *)
(***************************************************************************)
Window == 240
FUNG_DECAY_RATE == 1
MaxDecay == 2
MaxSprays == 4
MaxExponent == 16
WDen == 2

NoArg == <<-1, 1>>

Variants == {"Fungicide", "FungicideAsymptote", "FungicideNoDecay"}
Doses == {<<0, 1>>, <<1, 2>>, <<1, 1>>}
Asymptotes == {<<n, WDen>> : n \in 0..WDen}
Curvatures == {0, 1, 4}
TraitValues == {<<1, Pow2(k)>> : k \in {0, 1, 2, 4, 8}}

\* log(x), in units of ln 2, of x = 2^k
Log(x) == CHOOSE k \in 0..MaxExponent : Pow2(k) = x[1] /\ x[2] = 1

\* exp(-c), c >= 0 a whole number of ln 2
ExpNeg(c) == <<1, Pow2(c[1])>>

ExactExp(c) == c[2] = 1 /\ c[1] >= 0 /\ c[1] <= MaxExponent

SpraysListThreeOrMore(num_sprays) ==
    IF num_sprays = 1 THEN <<T_2>>
    ELSE IF num_sprays = 2 THEN <<T_2, T_3>>
    ELSE IF num_sprays >= 3 THEN <<T_1, T_2, T_3>>
    ELSE <<>>

\* the spray schedule of the three __init__ methods
SpraysList(num_sprays) ==
    IF num_sprays = 1 THEN <<T_2>>
    ELSE IF num_sprays = 2 THEN <<T_2, T_3>>
    ELSE IF num_sprays = 3 THEN <<T_1, T_2, T_3>>
    ELSE <<>>

\* "if t > T_spray" of Fungicide.effect and FungicideAsymptote.effect
SprayApplied(t, T_spray) == t > T_spray

InWindowNoLowerBound(t, T_spray) == t < T_spray + Window

\* "if t > T_spray and t < T_spray+240" of FungicideNoDecay.effect
InWindow(t, T_spray) == t > T_spray /\ t < T_spray + Window

\* exp(-self.decay_rate*(t-T_spray))
ExpDecay(decay_rate, dt) == ExpNeg(<<(decay_rate * dt) \div HalfLife, 1>>)

ExactDecay(f, t) ==
    \A i \in 1..Len(f.sprays_list) :
        SprayApplied(t, f.sprays_list[i]) =>
            /\ (f.decay_rate * (t - f.sprays_list[i])) % HalfLife = 0
            /\ (f.decay_rate * (t - f.sprays_list[i])) \div HalfLife <= MaxExponent

\* the loop "for T_spray in self.sprays_list: if t > T_spray: concentration += ..."
RECURSIVE DecayConcentration(_, _, _)
DecayConcentration(f, t, n) ==
    IF n = 0 THEN <<0, 1>>
    ELSE LET before == DecayConcentration(f, t, n - 1)
             T_spray == f.sprays_list[n]
         IN IF SprayApplied(t, T_spray)
            THEN RatAdd(before, RatMul(f.dose, ExpDecay(f.decay_rate, t - T_spray)))
            ELSE before

RECURSIVE WindowConcentrationAdds(_, _, _)
WindowConcentrationAdds(f, t, n) ==
    IF n = 0 THEN <<0, 1>>
    ELSE LET before == WindowConcentrationAdds(f, t, n - 1)
         IN IF InWindow(t, f.sprays_list[n]) THEN RatAdd(before, f.dose) ELSE before

\* the loop "for T_spray in self.sprays_list: if ...: concentration = self.dose"
RECURSIVE WindowConcentration(_, _, _)
WindowConcentration(f, t, n) ==
    IF n = 0 THEN <<0, 1>>
    ELSE LET before == WindowConcentration(f, t, n - 1)
         IN IF InWindow(t, f.sprays_list[n]) THEN f.dose ELSE before

RelInfRateNoFloor(w, curv, concentration) ==
    RatSub(<<1, 1>>, RatMul(w, ExpNeg(RatMul(<<curv, 1>>, concentration))))

\* 1 - w + w*exp(- curv*concentration)
RelInfRate(w, curv, concentration) ==
    RatAdd(RatSub(<<1, 1>>, w), RatMul(w, ExpNeg(RatMul(<<curv, 1>>, concentration))))

\* exp(- curvature_this_strain*concentration)
RelInfRateNoDecay(curv, concentration) == ExpNeg(RatMul(<<curv, 1>>, concentration))

\* log(1/value_this_strain)
Curv(value_this_strain) == Log(RatDiv(<<1, 1>>, value_this_strain))

\* Fungicide.effect
FungicideEffect(f, value_this_strain, t) ==
    LET curv == Curv(value_this_strain)
        w == f.asymptote
        concentration == DecayConcentration(f, t, Len(f.sprays_list))
    IN [concentration |-> concentration,
        rel_inf_rate |-> IF concentration[1] = 0 THEN <<1, 1>>
                         ELSE RelInfRate(w, curv, concentration)]

\* FungicideAsymptote.effect
FungicideAsymptoteEffect(f, value_this_strain, t) ==
    LET w == value_this_strain
        concentration == DecayConcentration(f, t, Len(f.sprays_list))
    IN [concentration |-> concentration,
        rel_inf_rate |-> IF concentration[1] = 0 THEN <<1, 1>>
                         ELSE RelInfRate(w, f.curv, concentration)]

\* FungicideNoDecay.effect
FungicideNoDecayEffect(f, value_this_strain, t) ==
    LET curvature_this_strain == Curv(value_this_strain)
        concentration == WindowConcentration(f, t, Len(f.sprays_list))
    IN [concentration |-> concentration,
        rel_inf_rate |-> IF concentration[1] = 0 THEN <<1, 1>>
                         ELSE RelInfRateNoDecay(curvature_this_strain, concentration)]

effect(f, value_this_strain, t) ==
    IF f.kind = "Fungicide" THEN FungicideEffect(f, value_this_strain, t)
    ELSE IF f.kind = "FungicideAsymptote" THEN FungicideAsymptoteEffect(f, value_this_strain, t)
    ELSE FungicideNoDecayEffect(f, value_this_strain, t)

\* the exponent of the one exp() that effect() takes of the concentration
EffectExponent(f, value_this_strain, concentration) ==
    RatMul(<<IF f.kind = "FungicideAsymptote" THEN f.curv ELSE Curv(value_this_strain), 1>>,
           concentration)

\* the calls on which every exp() of effect() has a whole exponent
Exact(f, value_this_strain, t) ==
    /\ f.kind # "FungicideNoDecay" => ExactDecay(f, t)
    /\ LET concentration ==
               IF f.kind = "FungicideNoDecay"
               THEN WindowConcentration(f, t, Len(f.sprays_list))
               ELSE DecayConcentration(f, t, Len(f.sprays_list))
       IN ExactExp(EffectExponent(f, value_this_strain, concentration))

\* the three __init__ methods; decay_rate and asymptote may be None
NewFungicide(kind, num_sprays, dose, decay_rate, asymptote, curvature) ==
    [kind |-> kind,
     num_sprays |-> num_sprays,
     decay_rate |-> IF kind = "FungicideNoDecay" THEN 0
                    ELSE IF decay_rate = -1 THEN FUNG_DECAY_RATE ELSE decay_rate,
     asymptote |-> IF kind # "Fungicide" THEN NoArg
                   ELSE IF asymptote = NoArg THEN <<1, 1>> ELSE asymptote,
     dose |-> dose,
     curv |-> IF kind = "FungicideAsymptote" THEN curvature ELSE 0,
     sprays_list |-> SpraysList(num_sprays)]

\* the times effect() is asked about: around every spray and window end
CallTimes ==
    UNION {{T - 1, T, T + 1, T + HalfLife, T + Window - 1, T + Window, T + Window + 1} :
             T \in {T_1, T_2, T_3}}
    \cup {T_end}

InitFung ==
    /\ T_2 \in {T_1 + HalfLife, T_1 + 2 * HalfLife}
    /\ T_3 \in {T_2 + HalfLife, T_2 + 3 * HalfLife}
    /\ fung = None
    /\ call = None
    /\ OdeIdle /\ KernelIdle /\ BetaIdle /\ ConfigIdle /\ DistIdle /\ EconIdle

Construct ==
    /\ fung.kind = "None"
    /\ \E kind \in Variants, num_sprays \in -1..MaxSprays, dose \in Doses :
        \/ /\ kind = "Fungicide"
           /\ \E decay_rate \in -1..MaxDecay, asymptote \in Asymptotes \cup {NoArg} :
                fung' = NewFungicide(kind, num_sprays, dose, decay_rate, asymptote, 0)
        \/ /\ kind = "FungicideAsymptote"
           /\ \E decay_rate \in -1..MaxDecay, curvature \in Curvatures :
                fung' = NewFungicide(kind, num_sprays, dose, decay_rate, NoArg, curvature)
        \/ /\ kind = "FungicideNoDecay"
           /\ fung' = NewFungicide(kind, num_sprays, dose, -1, NoArg, 0)
    /\ UNCHANGED <<T_2, T_3, call>>
    /\ UNCHANGED <<odeVars, kernelVars, betaVars, configVars, distVars, econVars>>

\* one call of fung.effect(value_this_strain, t); effect() changes nothing of
\* the object, so one call per object shows every call
Effect ==
    /\ fung.kind # "None"
    /\ call.kind = "None"
    /\ \E value_this_strain \in TraitValues, t \in CallTimes :
        /\ Exact(fung, value_this_strain, t)
        /\ call' = [kind |-> "call", value_this_strain |-> value_this_strain, t |-> t]
                       @@ effect(fung, value_this_strain, t)
    /\ UNCHANGED <<T_2, T_3, fung>>
    /\ UNCHANGED <<odeVars, kernelVars, betaVars, configVars, distVars, econVars>>

NextFung == Construct \/ Effect

SpecFung == InitFung /\ [][NextFung]_vars

CallMade == fung.kind # "None" /\ call.kind = "call"

IsOne(x) == x[1] = x[2]

SeqMin(q) == CHOOSE x \in {q[i] : i \in 1..Len(q)} : \A i \in 1..Len(q) : x <= q[i]

\* C4: in each of the three variants, a call of effect at a time before the
\* first scheduled spray returns exactly 1, whatever the spray count, the
\* dose and the trait value.
C4_OneBeforeFirstSpray ==
    (CallMade /\ fung.sprays_list # <<>> /\ call.t < SeqMin(fung.sprays_list))
        => call.rel_inf_rate = <<1, 1>>

C4_Witness ==
    /\ CallMade /\ fung.kind = "FungicideNoDecay"
    /\ fung.num_sprays = 2 /\ fung.dose[1] > 0
    /\ call.value_this_strain[2] > 1
    /\ call.t = T_2 - 1
    /\ call.rel_inf_rate = <<1, 1>>

\* C5: the schedule is [T_2] for 1 spray, [T_2, T_3] for 2, [T_1, T_2, T_3]
\* for 3 and empty for every other count; with an empty schedule effect
\* returns 1 at every time for every trait value.
C5_Schedule ==
    fung.kind # "None" =>
        /\ fung.num_sprays = 1 => fung.sprays_list = <<T_2>>
        /\ fung.num_sprays = 2 => fung.sprays_list = <<T_2, T_3>>
        /\ fung.num_sprays = 3 => fung.sprays_list = <<T_1, T_2, T_3>>
        /\ fung.num_sprays \notin {1, 2, 3} => fung.sprays_list = <<>>
        /\ (call.kind = "call" /\ fung.sprays_list = <<>>) => call.rel_inf_rate = <<1, 1>>

C5_Witness ==
    /\ CallMade /\ fung.num_sprays = 4 /\ fung.sprays_list = <<>>
    /\ fung.dose[1] > 0 /\ call.value_this_strain[2] > 1
    /\ call.t > T_3
    /\ call.rel_inf_rate = <<1, 1>>

\* the concentration C6 describes: every spray time T <= t contributes
RECURSIVE ConcentrationUpToT(_, _, _)
ConcentrationUpToT(f, t, n) ==
    IF n = 0 THEN <<0, 1>>
    ELSE LET before == ConcentrationUpToT(f, t, n - 1)
             T_spray == f.sprays_list[n]
         IN IF T_spray <= t
            THEN RatAdd(before, RatMul(f.dose, ExpDecay(f.decay_rate, t - T_spray)))
            ELSE before

\* C6: in Fungicide.effect the concentration at t is the sum over the spray
\* times T <= t (a spray at exactly t included) of dose*exp(-decay_rate*(t-T)),
\* and the multiplier is 1 - w + w*exp(-curv*concentration), curv = log(1/trait).
C6_ConcentrationFromSpraysUpToT ==
    (CallMade /\ fung.kind = "Fungicide") =>
        LET concentration == ConcentrationUpToT(fung, call.t, Len(fung.sprays_list))
            curv == Curv(call.value_this_strain)
        IN /\ call.concentration = concentration
           /\ ExactExp(RatMul(<<curv, 1>>, concentration))
                => call.rel_inf_rate = RelInfRate(fung.asymptote, curv, concentration)

InSomeWindow(f, t) ==
    \E i \in 1..Len(f.sprays_list) : f.sprays_list[i] < t /\ t < f.sprays_list[i] + Window

\* C7: in FungicideNoDecay.effect the concentration is the dose inside the
\* 240-unit window after at least one spray and 0 otherwise, never more than
\* the dose where two windows overlap, and outside every window effect is 1.
C7_WindowConcentration ==
    (CallMade /\ fung.kind = "FungicideNoDecay") =>
        /\ call.concentration = IF InSomeWindow(fung, call.t) THEN fung.dose ELSE <<0, 1>>
        /\ RatLe(call.concentration, fung.dose)
        /\ ~InSomeWindow(fung, call.t) => call.rel_inf_rate = <<1, 1>>

C7_Witness ==
    /\ CallMade /\ fung.kind = "FungicideNoDecay"
    /\ fung.num_sprays = 3 /\ fung.dose[1] > 0
    /\ T_2 < call.t /\ T_3 < call.t /\ call.t < T_2 + Window
    /\ call.concentration = fung.dose
    /\ call.value_this_strain[2] > 1
    /\ ~IsOne(call.rel_inf_rate)

\* C8: the multiplier effect returns lies in (0, 1], for every variant, trait
\* value in (0,1], time, dose >= 0, decay rate >= 0, asymptote in [0,1] and
\* curvature >= 0.
C8_MultiplierInUnitInterval ==
    CallMade =>
        /\ call.rel_inf_rate[2] > 0
        /\ call.rel_inf_rate[1] > 0
        /\ call.rel_inf_rate[1] <= call.rel_inf_rate[2]

C8_Witness ==
    /\ CallMade /\ fung.kind = "Fungicide"
    /\ fung.asymptote = <<1, 1>> /\ fung.num_sprays = 3
    /\ call.t > T_3 /\ fung.decay_rate > 0
    /\ call.value_this_strain[2] > 2
    /\ call.rel_inf_rate[1] > 0
    /\ 4 * call.rel_inf_rate[1] < call.rel_inf_rate[2]

(***************************************************************************)
(* find_beta(final_sev, I0).                                               *)
(*                                                                         *)
(* scipy's minimize is a collaborator: it returns min_out, with a success  *)
(* flag and the point x it stopped at.  A beta is a rational.              *)
(***************************************************************************)
SevDen == 2
MaxSev == 3

bds == <<<<1, 10000>>, <<5, 100>>>>

INITIAL_GUESS == <<78, 10000>>

NaN == [kind |-> "nan", x |-> <<0, 1>>]

Float(x) == [kind |-> "float", x |-> x]

\* where the optimizer may stop: below, on, between, on and above the bounds
OptimizerPoints ==
    {<<0, 10000>>, bds[1], <<2, 10000>>, INITIAL_GUESS, <<499, 10000>>, bds[2],
     <<501, 10000>>}

InsideBoundsOrOn(mo) == mo.success /\ RatLe(mo.x, bds[2]) /\ RatLe(bds[1], mo.x)

\* "if min_out.success and beta_val < bds[1] and beta_val > bds[0]"
InsideBounds(mo) == mo.success /\ RatLt(mo.x, bds[2]) /\ RatLt(bds[1], mo.x)

\* the value find_beta returns for the optimizer's result
FindBetaResult(mo) == IF InsideBounds(mo) THEN Float(mo.x) ELSE NaN

InitBeta ==
    /\ final_sev \in {<<k, SevDen>> : k \in 0..MaxSev}
    /\ I0 \in {<<n, I0Den>> : n \in 1..MaxI0}
    /\ min_out = None
    /\ beta_out = None
    /\ warned = FALSE
    /\ beta_ = 0 /\ t_vals = NoSeq /\ t_out = <<>> /\ ind = 0
    /\ y_out = <<>> /\ solver_y = None /\ solver_ok = TRUE /\ ode_pc = "idle"
    /\ KernelIdle /\ FungIdle /\ ConfigIdle /\ DistIdle /\ EconIdle

find_beta ==
    /\ beta_out.kind = "None"
    /\ warned' = RatLt(<<1, 1>>, final_sev)
    /\ \E success \in BOOLEAN, x \in OptimizerPoints :
        /\ min_out' = [kind |-> "OptimizeResult", success |-> success, x |-> x]
        /\ beta_out' = FindBetaResult(min_out')
    /\ UNCHANGED final_sev
    /\ UNCHANGED <<odeVars, kernelVars, fungVars, configVars, distVars, econVars>>

NextBeta == find_beta

SpecBeta == InitBeta /\ [][NextBeta]_vars

\* C9: find_beta returns NaN or a value strictly inside the bounds
\* (1e-4, 5e-2), the optimizer's own; it returns NaN whenever the optimizer
\* reports failure or stops on or outside a bound.
C9_NaNOrInsideBounds ==
    beta_out.kind # "None" =>
        /\ \/ beta_out = NaN
           \/ /\ beta_out.kind = "float"
              /\ beta_out.x = min_out.x
              /\ RatLt(<<1, 10000>>, beta_out.x)
              /\ RatLt(beta_out.x, <<5, 100>>)
        /\ (~min_out.success \/ RatLe(min_out.x, <<1, 10000>>) \/ RatLe(<<5, 100>>, min_out.x))
               => beta_out = NaN

C9_Witness ==
    /\ beta_out = NaN
    /\ min_out.kind = "OptimizeResult" /\ min_out.success
    /\ min_out.x = <<5, 100>>

(***************************************************************************)
(* Config.__init__ (the single-fungicide Config).                          *)
(*                                                                         *)
(* fit is the table read from ../data/fitted.csv, a sequence of rows.  A   *)
(* mutation parameter of the table or of the call is a whole number of     *)
(* 1e-4.  The constants of poly2.consts are named, not valued.  config is  *)
(* the object under construction: its attributes so far, and how            *)
(* __init__ ended.                                                         *)
(***************************************************************************)
MaxRows == 4
MaxNYears == 2

Traits == {"Fungicide", "Mariboss", "Other"}

Triples == {<<50, 100, 100>>, <<50, 100, 200>>}

FitRows ==
    {[mutation_prop |-> tr[1], mutation_scale_fung |-> tr[2],
      mutation_scale_host |-> tr[3], trait |-> trait, mu |-> m[1], b |-> m[2]] :
        tr \in Triples, trait \in Traits, m \in {<<1, 3>>, <<2, 4>>}}

RowKey(r) ==
    (IF r.mutation_scale_host = 100 THEN 0 ELSE 6)
    + (IF r.trait = "Fungicide" THEN 0 ELSE IF r.trait = "Mariboss" THEN 2 ELSE 4)
    + r.mu

\* the tables of at most MaxRows rows, up to the order of the rows, which no
\* step of __init__ looks at: the rows of a table are listed by RowKey
RECURSIVE Tables(_)
Tables(n) ==
    IF n = 0 THEN {<<>>}
    ELSE LET shorter == Tables(n - 1) IN
         shorter \cup
         {Append(t, r) : t \in {u \in shorter : Len(u) = n - 1},
                         r \in FitRows} 

Sorted(t) == \A i \in 1..(Len(t) - 1) : RowKey(t[i]) <= RowKey(t[i + 1])

SortedTables(n) == {t \in Tables(n) : Sorted(t)}

\* np.isclose(a, b): abs(a - b) <= atol + rtol*abs(b), atol = 1e-8, rtol = 1e-5,
\* with a and b in units of 1e-4
isclose(a, b) == Abs(a - b) * 100000 <= 10 + Abs(b)

\* the rows the assertion counts
MatchingRows(table, a) ==
    {i \in 1..Len(table) :
        /\ isclose(table[i].mutation_prop, a.mutation_proportion)
        /\ isclose(table[i].mutation_scale_fung, a.mutation_scale_fung)
        /\ isclose(table[i].mutation_scale_host, a.mutation_scale_host)}

\* fit.loc[lambda df: df.trait == trait, column]
Loc(table, trait) == {i \in 1..Len(table) : table[i].trait = trait}

\* float(series) is the one value of a series of one row, a TypeError of any other
FloatOk(rows) == Cardinality(rows) = 1

Only(rows) == CHOOSE i \in rows : TRUE

Ones(n) == [i \in 1..n |-> 1]

Scaled(c, q) == [i \in 1..Len(q) |-> <<c, q[i]>>]

\* lines 148-182: the attributes set before the table is read
StrategyAttrs(a) ==
    [n_years |-> a.n_years,
     sprays |-> a.sprays,
     fungicide_mixture |-> FALSE,
     n_k |-> a.n_k,
     n_l |-> a.n_l,
     decay_rate |-> a.decay_rate,
     asymptote |-> a.asymptote,
     doses |-> IF a.dose = "None" THEN Scaled("1", Ones(a.n_years))
               ELSE Scaled(a.dose, Ones(a.n_years)),
     host_on |-> a.host_on,
     replace_cultivars |-> IF a.replace_cultivars # "False" THEN a.replace_cultivars
                           ELSE "None",
     mutation_proportion |-> a.mutation_proportion,
     mutation_scale_host |-> a.mutation_scale_host,
     mutation_scale_fung |-> a.mutation_scale_fung]

\* lines 194-198: mu and b of the Fungicide row and of the Mariboss row
FittedAttrs(table) ==
    [k_mu |-> table[Only(Loc(table, "Fungicide"))].mu,
     k_b |-> table[Only(Loc(table, "Fungicide"))].b,
     l_mu |-> table[Only(Loc(table, "Mariboss"))].mu,
     l_b |-> table[Only(Loc(table, "Mariboss"))].b]

\* lines 204-217: the scenario
ScenarioAttrs(a) ==
    LET type_ == IF a.type = "None" THEN "single" ELSE a.type
        I0s == [I0s |-> Scaled("DEFAULT_I0", Ones(a.n_years))]
    IN IF type_ = "single"
       THEN I0s @@ [betas |-> Scaled("DEFAULT_BETA", Ones(a.n_years))]
       ELSE IF type_ = "multi"
       THEN I0s @@ [beta_multi |-> "ALL_BETAS", n_iterations |-> a.n_iterations]
       ELSE I0s

\* "assert len(fit.loc[...]) == 2"
AssertionHolds(table, a) == Cardinality(MatchingRows(table, a)) = 2

\* Config.__init__, to its end or to the exception that ends it
ConfigInit(table, a) ==
    IF ~AssertionHolds(table, a)
    THEN [kind |-> "AssertionError", attrs |-> StrategyAttrs(a)]
    ELSE IF ~FloatOk(Loc(table, "Fungicide"))
    THEN [kind |-> "TypeError", attrs |-> StrategyAttrs(a)]
    ELSE IF ~FloatOk(Loc(table, "Mariboss"))
    THEN [kind |-> "TypeError",
          attrs |-> StrategyAttrs(a)
                    @@ [k_mu |-> table[Only(Loc(table, "Fungicide"))].mu,
                        k_b |-> table[Only(Loc(table, "Fungicide"))].b]]
    ELSE [kind |-> "Config",
          attrs |-> StrategyAttrs(a) @@ FittedAttrs(table) @@ ScenarioAttrs(a)]

ConfigArgs ==
    [kind : {"args"},
     type : {"None", "single", "multi"},
     sprays : {<<1>>},
     host_on : {<<FALSE>>},
     n_k : {50}, n_l : {50},
     n_iterations : {"None"},
     n_years : 1..MaxNYears,
     replace_cultivars : {"False"},
     mutation_proportion : {50},
     mutation_scale_host : {100},
     mutation_scale_fung : {100},
     decay_rate : {"None"},
     asymptote : {"None"},
     dose : {"None", "1/2"}]

InitConfig ==
    /\ fit \in SortedTables(MaxRows)
    /\ args \in ConfigArgs
    /\ config = None
    /\ OdeIdle /\ KernelIdle /\ FungIdle /\ BetaIdle /\ DistIdle /\ EconIdle

NewConfig ==
    /\ config.kind = "None"
    /\ config' = ConfigInit(fit, args)
    /\ UNCHANGED <<fit, args>>
    /\ UNCHANGED <<odeVars, kernelVars, fungVars, betaVars, distVars, econVars>>

HostAttrsWithoutLB == {"n_l", "host_on", "replace_cultivars", "mutation_scale_host", "l_mu"}

\* the keys of remove_host_attrs_from_config
HostAttrs == {"n_l", "host_on", "replace_cultivars", "mutation_scale_host", "l_mu", "l_b"}

\* "for key in [...]: delattr(obj, key)"
remove_host_attrs_from_config(attrs) ==
    [key \in (DOMAIN attrs) \ HostAttrs |-> attrs[key]]

\* config.remove_host_attrs() on a Config that holds every host attribute; on
\* one that lacks 'n_l' the first delattr raises and nothing changes
remove_host_attrs ==
    /\ config.kind = "Config"
    /\ HostAttrs \subseteq DOMAIN config.attrs
    /\ config' = [config EXCEPT !.attrs = remove_host_attrs_from_config(config.attrs)]
    /\ UNCHANGED <<fit, args>>
    /\ UNCHANGED <<odeVars, kernelVars, fungVars, betaVars, distVars, econVars>>

NextConfig == NewConfig \/ remove_host_attrs

SpecConfig == InitConfig /\ [][NextConfig]_vars

TraitsOfMatches(table, a) == {table[i].trait : i \in MatchingRows(table, a)}

\* C10: construction ends in a failure, with no scenario attribute set,
\* unless exactly two rows of the table match the triple of the call, one
\* of trait Fungicide and one of trait Mariboss.
C10_ExactlyTwoMatchesOnePerTrait ==
    config.kind # "None" =>
        /\ config.kind = "Config" =>
              /\ Cardinality(MatchingRows(fit, args)) = 2
              /\ TraitsOfMatches(fit, args) = {"Fungicide", "Mariboss"}
        /\ config.kind # "Config" =>
              {"I0s", "betas", "beta_multi", "n_iterations"} \cap DOMAIN config.attrs = {}

SingleType == args.type \in {"None", "single"}

HostRemoved == config.kind = "Config" /\ "n_l" \notin DOMAIN config.attrs

ListedAttrs ==
    {"n_k", "k_mu", "k_b", "decay_rate", "asymptote", "doses", "mutation_proportion",
     "mutation_scale_fung", "betas", "I0s", "n_years", "sprays"}

\* C11 as stated: after remove_host_attrs on a freshly built single-type
\* Config the attributes are exactly the twelve listed ones, each with the
\* value __init__ gave it, and none of the six host attributes is left.
C11_ExactlyListedAttrs ==
    (HostRemoved /\ SingleType) =>
        /\ DOMAIN config.attrs = ListedAttrs
        /\ \A key \in DOMAIN config.attrs : config.attrs[key] = ConfigInit(fit, args).attrs[key]
        /\ HostAttrs \cap DOMAIN config.attrs = {}

\* C11 as amended: the attributes left are the twelve listed ones and
\* fungicide_mixture, each with the value __init__ gave it, and none of the
\* six host attributes is left.
C11_ListedAttrsAndMixture ==
    (HostRemoved /\ SingleType) =>
        /\ DOMAIN config.attrs = ListedAttrs \cup {"fungicide_mixture"}
        /\ \A key \in DOMAIN config.attrs : config.attrs[key] = ConfigInit(fit, args).attrs[key]
        /\ HostAttrs \cap DOMAIN config.attrs = {}

C11_Witness ==
    /\ HostRemoved /\ SingleType
    /\ "betas" \in DOMAIN config.attrs
    /\ "l_b" \in DOMAIN ConfigInit(fit, args).attrs
    /\ args.dose = "1/2"

\* the values of one matched row of the given trait
FromMatchedRow(trait, mu, b) ==
    \E i \in MatchingRows(fit, args) :
        fit[i].trait = trait /\ fit[i].mu = mu /\ fit[i].b = b

\* C16: whenever construction succeeds, k_mu and k_b are the mu and b of the
\* matched row of trait 'Fungicide' and l_mu and l_b those of the matched row
\* of trait 'Mariboss'; the values of a row that does not match the triple
\* are never used.
C16_FittedValuesFromMatchedRows ==
    (config.kind = "Config" /\ ~HostRemoved) =>
        /\ FromMatchedRow("Fungicide", config.attrs.k_mu, config.attrs.k_b)
        /\ FromMatchedRow("Mariboss", config.attrs.l_mu, config.attrs.l_b)

AllStepsSucceeded == ode_pc = "returned" /\ solver_ok

\* C17: on a time grid of m >= 2 points on which every integration step
\* succeeds, the returned array has m columns and column i is the state at
\* t_out[i]: the first is the initial condition, each later one the state
\* integrated to its time, none is the zero fill or the state of another time.
C17_ColumnsAreStatesAtTheirTimes ==
    AllStepsSucceeded =>
        /\ Len(y_out) = Len(t_out)
        /\ y_out[1] = [kind |-> "state", y0 |-> InitialCondition(I0), at |-> t_out[1]]
        /\ \A i \in 1..Len(t_out) :
              /\ y_out[i] # ZeroColumn
              /\ y_out[i].kind = "state"
              /\ y_out[i].y0 = InitialCondition(I0)
              /\ y_out[i].at = t_out[i]

C17_Witness ==
    /\ AllStepsSucceeded
    /\ t_vals # NoSeq
    /\ Len(t_out) = MaxLen
    /\ y_out[Len(t_out)].at = t_out[Len(t_out)]

(***************************************************************************)
(* The trait grid and the distributions on it: edge_values, trait_vec,     *)
(* initial_point_distribution, gamma_dist, beta_dist.  One call is made,   *)
(* with its arguments kept in dist_args and its outcome in dist_out.       *)
(***************************************************************************)
MaxBins == 4

Bins == 1..MaxBins

Array(value) == [kind |-> "array", value |-> value]

InitDist ==
    /\ dist_args = None
    /\ dist_out = None
    /\ OdeIdle /\ KernelIdle /\ FungIdle /\ BetaIdle /\ ConfigIdle /\ EconIdle

\* edge_values(n)
CallEdgeValues ==
    /\ dist_out.kind = "None"
    /\ \E n \in Bins :
        /\ dist_args' = [kind |-> "edge_values", n |-> n]
        /\ dist_out' = Array(edge_values(n))
    /\ UNCHANGED <<odeVars, kernelVars, fungVars, betaVars, configVars, econVars>>

\* trait_vec(n)
CallTraitVec ==
    /\ dist_out.kind = "None"
    /\ \E n \in Bins :
        /\ dist_args' = [kind |-> "trait_vec", n |-> n]
        /\ dist_out' = Array(trait_vec(n))
    /\ UNCHANGED <<odeVars, kernelVars, fungVars, betaVars, configVars, econVars>>

MeanDen == 2

\* the values of mean: from -2 to 2 in steps of 1/MeanDen
Means == {Norm(<<k, MeanDen>>) : k \in (-2 * MeanDen)..(2 * MeanDen)}

\* int(x): the whole part of x, truncated toward zero
int(x) == IF x[1] >= 0 THEN x[1] \div x[2] ELSE -((-x[1]) \div x[2])

Inf(sign) == [kind |-> "inf", x |-> <<sign, 1>>]

IsNaN(u) == u.kind = "nan"

\* float arithmetic of numpy: nan propagates, x/0 is nan for x = 0 and
\* an infinity otherwise (no infinity is ever an operand here)
FloatAdd(u, v) == IF IsNaN(u) \/ IsNaN(v) THEN NaN ELSE Float(RatAdd(u.x, v.x))

FloatSub(u, v) == IF IsNaN(u) \/ IsNaN(v) THEN NaN ELSE Float(RatSub(u.x, v.x))

FloatDiv(u, v) ==
    IF IsNaN(u) \/ IsNaN(v) THEN NaN
    ELSE IF v.x[1] = 0
         THEN (IF u.x[1] = 0 THEN NaN ELSE Inf(IF u.x[1] > 0 THEN 1 ELSE -1))
    ELSE IF v.x[1] > 0 THEN Float(RatDiv(u.x, v.x))
    ELSE Float(RatDiv(<<-u.x[1], u.x[2]>>, <<-v.x[1], v.x[2]>>))

RECURSIVE FloatSum(_)
FloatSum(s) == IF s = <<>> THEN Float(<<0, 1>>) ELSE FloatAdd(Head(s), FloatSum(Tail(s)))

\* normalise(dist): dist / sum(dist)
normalise(d) == [i \in 1..Len(d) |-> FloatDiv(d[i], FloatSum(d))]

\* out[idx] = 1 of signal.unit_impulse: an index from the end when negative,
\* an IndexError outside -N..N-1
IndexOk(N, j) == -N <= j /\ j < N

Index(N, j) == IF j < 0 THEN N + j ELSE j

AsFloats(s) == [i \in 1..Len(s) |-> Float(<<s[i], 1>>)]

initial_point_distributionTimesN(n, mean) ==
    LET edge_vals == edge_values(n)
        N == Len(edge_vals) - 1
        j == int(RatMul(mean, <<N, 1>>))
    IN IF ~IndexOk(N, j) THEN [kind |-> "IndexError"]
       ELSE Array(normalise(AsFloats(unit_impulse(N, Index(N, j)))))

initial_point_distribution(n, mean) ==
    LET edge_vals == edge_values(n)
        N == Len(edge_vals) - 1
        j == int(RatMul(mean, <<N - 1, 1>>))
    IN IF ~IndexOk(N, j) THEN [kind |-> "IndexError"]
       ELSE Array(normalise(AsFloats(unit_impulse(N, Index(N, j)))))

CallInitialPointDistribution ==
    /\ dist_out.kind = "None"
    /\ \E n \in Bins, mean \in Means :
        /\ dist_args' = [kind |-> "initial_point_distribution", n |-> n, mean |-> mean]
        /\ dist_out' = initial_point_distribution(n, mean)
    /\ UNCHANGED <<odeVars, kernelVars, fungVars, betaVars, configVars, econVars>>

MaxShape == 2
CdfUnits == 4

\* the shape parameters a and b: whole numbers, non-positive ones included
Shapes == (-1)..MaxShape

\* scipy's cdf of a distribution with valid parameters, at the n + 1 points
\* where a builder evaluates it, listed by increasing argument: 0 at the lower
\* end of the support, 1 at its upper end, non-decreasing between, in units
\* of 1/CdfUnits
CdfTables(n) ==
    {F \in [1..(n + 1) -> 0..CdfUnits] :
        /\ F[1] = 0
        /\ F[n + 1] = CdfUnits
        /\ \A i \in 1..n : F[i] <= F[i + 1]}

\* the curvature log(1/e) of a trait value e
LogInv(e) == [kind |-> "log(1/e)", e |-> e]

InfCurvatureAsZero == LogInv(<<1, 1>>)

\* np.inf, the curvature of trait value 0
InfCurvature == LogInv(<<0, 1>>)

\* gamma.cdf(x, a, scale=scale) at the curvature x = log(1/e) of an edge e:
\* nan unless a > 0 and scale > 0
GammaCdf(x, a, scale, F) ==
    LET n == Len(F) - 1 IN
    IF ~(a > 0 /\ scale[1] > 0) THEN NaN
    ELSE Float(Norm(<<F[n + 1 - (x.e[1] * n) \div x.e[2]], CdfUnits>>))

\* beta.cdf(x, a, b) at an edge x: nan unless a > 0 and b > 0
BetaCdf(x, a, b, F) ==
    LET n == Len(F) - 1 IN
    IF ~(a > 0 /\ b > 0) THEN NaN
    ELSE Float(Norm(<<F[1 + (x[1] * n) \div x[2]], CdfUnits>>))

\* gamma_dist(n, a, b), b a Python number: 1/b raises for b = 0
gamma_dist(n, a, b, F) ==
    IF b = 0 THEN [kind |-> "ZeroDivisionError"]
    ELSE LET edge_vals == edge_values(n)
             curvature_edge_vals ==
                 [i \in 1..(n + 1) |-> IF i = 1 THEN InfCurvature ELSE LogInv(edge_vals[i])]
             scale == IF b > 0 THEN <<1, b>> ELSE <<-1, -b>>
             d == [i \in 1..(Len(curvature_edge_vals) - 1) |->
                      FloatSub(GammaCdf(curvature_edge_vals[i], a, scale, F),
                               GammaCdf(curvature_edge_vals[i + 1], a, scale, F))]
         IN Array(normalise(d))

beta_dist(n, a, b, F) ==
    LET edge_vals == edge_values(n)
        d == [i \in 1..(Len(edge_vals) - 1) |->
                 FloatSub(BetaCdf(edge_vals[i + 1], a, b, F),
                          BetaCdf(edge_vals[i], a, b, F))]
    IN Array(normalise(d))

CallGammaDist ==
    /\ dist_out.kind = "None"
    /\ \E n \in Bins, a \in Shapes, b \in Shapes :
        \E F \in CdfTables(n) :
            /\ dist_args' = [kind |-> "gamma_dist", n |-> n, a |-> a, b |-> b, cdf |-> F]
            /\ dist_out' = gamma_dist(n, a, b, F)
    /\ UNCHANGED <<odeVars, kernelVars, fungVars, betaVars, configVars, econVars>>

CallBetaDist ==
    /\ dist_out.kind = "None"
    /\ \E n \in Bins, a \in Shapes, b \in Shapes :
        \E F \in CdfTables(n) :
            /\ dist_args' = [kind |-> "beta_dist", n |-> n, a |-> a, b |-> b, cdf |-> F]
            /\ dist_out' = beta_dist(n, a, b, F)
    /\ UNCHANGED <<odeVars, kernelVars, fungVars, betaVars, configVars, econVars>>

NextDist ==
    \/ CallEdgeValues
    \/ CallTraitVec
    \/ CallInitialPointDistribution
    \/ CallGammaDist
    \/ CallBetaDist

SpecDist == InitDist /\ [][NextDist]_vars

Called(fn) == dist_args.kind = fn

\* n + 1 equally spaced, strictly increasing values from 0 to 1
IsEdgeGrid(e, n) ==
    /\ Len(e) = n + 1
    /\ e[1] = <<0, 1>>
    /\ e[n + 1] = <<1, 1>>
    /\ \A i \in 1..n : RatLt(e[i], e[i + 1]) /\ RatSub(e[i + 1], e[i]) = <<1, n>>

\* C12: for every n >= 1, trait_vec(n) has length n, is strictly increasing,
\* starts at dx and ends at 1 - dx with dx = 1/(2n), is symmetric around 1/2,
\* and its i-th value is the midpoint of edges i and i + 1 of edge_values(n),
\* which are n + 1 equally spaced strictly increasing values from 0 to 1.
C12_TraitVecMidpoints ==
    /\ Called("edge_values") => IsEdgeGrid(dist_out.value, dist_args.n)
    /\ Called("trait_vec") =>
        LET n == dist_args.n
            v == dist_out.value
            e == edge_values(n)
            dx == Norm(<<1, 2 * n>>)
        IN /\ IsEdgeGrid(e, n)
           /\ Len(v) = n
           /\ \A i \in 1..(n - 1) : RatLt(v[i], v[i + 1])
           /\ v[1] = dx
           /\ v[n] = RatSub(<<1, 1>>, dx)
           /\ \A i \in 1..n : RatAdd(v[i], v[n + 1 - i]) = <<1, 1>>
           /\ \A i \in 1..n : RatAdd(v[i], v[i]) = RatAdd(e[i], e[i + 1])

C12_Witness ==
    /\ Called("trait_vec")
    /\ dist_args.n = MaxBins
    /\ Len(dist_out.value) = MaxBins

Floor(x) == x[1] \div x[2]

\* all the mass of v is in the bin of 0-based index j, one of its bins
PointMassAt(v, j) ==
    /\ j \in 0..(Len(v) - 1)
    /\ \A i \in 1..Len(v) : v[i] = Float(<<IF i = j + 1 THEN 1 ELSE 0, 1>>)

PointMassAtFloor ==
    /\ dist_out.kind = "array"
    /\ Len(dist_out.value) = dist_args.n
    /\ PointMassAt(dist_out.value, Floor(RatMul(dist_args.mean, <<dist_args.n - 1, 1>>)))

\* C13 as stated: for every n >= 1 and every mean,
\* initial_point_distribution(n, mean) is a vector of length n with mass 1 in
\* the bin of index floor(mean*(n-1)) and mass 0 in every other bin.
C13_PointMassForEveryMean ==
    Called("initial_point_distribution") => PointMassAtFloor

MeanInUnitInterval ==
    RatLe(<<0, 1>>, dist_args.mean) /\ RatLe(dist_args.mean, <<1, 1>>)

\* C13 as amended: the same for every n >= 1 and every mean with
\* 0 <= mean <= 1.
C13_PointMassForMeanInUnitInterval ==
    (Called("initial_point_distribution") /\ MeanInUnitInterval) => PointMassAtFloor

C13_Witness ==
    /\ Called("initial_point_distribution")
    /\ dist_args.n = MaxBins
    /\ dist_args.mean = <<1, 2>>
    /\ dist_out.kind = "array"
    /\ dist_out.value[1] = Float(<<0, 1>>)

BuilderCalled == Called("gamma_dist") \/ Called("beta_dist")

HasNaN(v) == \E i \in 1..Len(v) : IsNaN(v[i])

\* C14: gamma_dist and beta_dist report a failure or clamp when a shape
\* parameter a or b is non-positive; neither ever returns a vector that
\* contains NaN.
C14_NoNaNVector ==
    BuilderCalled => (dist_out.kind = "array" => ~HasNaN(dist_out.value))

PositiveShapes == dist_args.a > 0 /\ dist_args.b > 0

\* the mass of the bin between trait edges (i-1)/n and i/n before it is
\* normalised, in units of 1/CdfUnits: for gamma_dist the cdf runs over the
\* curvature, from +infinity at trait edge 0 down to 0 at trait edge 1
BinMass(i) ==
    LET n == dist_args.n
        F == dist_args.cdf
    IN IF Called("gamma_dist") THEN F[n + 2 - i] - F[n + 1 - i]
       ELSE F[i + 1] - F[i]

TotalMass == SumSeq([i \in 1..dist_args.n |-> BinMass(i)])

\* C15: for every n >= 1 and positive a and b, beta_dist and gamma_dist
\* return n non-negative entries that sum to 1, each the cdf difference over
\* one bin, taken in the order that makes it non-negative, over the total.
C15_NormalisedBinMasses ==
    (BuilderCalled /\ PositiveShapes) =>
        /\ dist_out.kind = "array"
        /\ Len(dist_out.value) = dist_args.n
        /\ FloatSum(dist_out.value) = Float(<<1, 1>>)
        /\ \A i \in 1..dist_args.n :
              /\ BinMass(i) >= 0
              /\ dist_out.value[i] = Float(Norm(<<BinMass(i), TotalMass>>))
              /\ dist_out.value[i].x[1] >= 0

C15_Witness ==
    /\ Called("gamma_dist") /\ PositiveShapes
    /\ dist_args.n = MaxBins
    /\ dist_out.kind = "array"
    /\ \A i \in 1..dist_args.n : dist_out.value[i].x[1] > 0

(***************************************************************************)
(* economic_yield and economic_yield_mixture.  The prices of PARAMS are    *)
(* whole numbers, a yield and a number of sprays are whole numbers, a dose *)
(* is a rational in 0..1; the vectors of one call have the same length.    *)
(***************************************************************************)
MaxPrice == 2
MaxYield == 1
MaxSprayCount == 2
DoseDen == 2

Prices ==
    [wheat_price : 1..MaxPrice,
     application_cost_per_spray : 1..MaxPrice,
     chemical_cost_per_spray : 1..MaxPrice]

Lengths == {1, 2}

DoseLevels == {Norm(<<k, DoseDen>>) : k \in 0..DoseDen}

\* (doses > 0).astype(int)
astype_int(did_apply_bool) == IF did_apply_bool THEN 1 ELSE 0

Whole(k) == <<k, 1>>

economic_yield(PARAMS, yield_vec, sprays_vec, doses) ==
    LET did_apply_bool == [i \in DOMAIN doses |-> RatLt(Whole(0), doses[i])]
        applied == [i \in DOMAIN doses |-> astype_int(did_apply_bool[i])]
        cost_application ==
            [i \in DOMAIN doses |->
                Whole(PARAMS.application_cost_per_spray * sprays_vec[i] * applied[i])]
        cost_fungicide ==
            [i \in DOMAIN doses |->
                RatMul(Whole(PARAMS.chemical_cost_per_spray * sprays_vec[i]), doses[i])]
        revenue == [i \in DOMAIN doses |-> Whole(PARAMS.wheat_price * yield_vec[i])]
    IN [i \in DOMAIN doses |->
           RatSub(RatSub(revenue[i], cost_application[i]), cost_fungicide[i])]

ClipNothing(applied) == applied

\* "applied[applied > 0] = 1"
ClipToOne(applied) == IF applied > 0 THEN 1 ELSE applied

economic_yield_mixture(PARAMS, yield_vec, sprays_vec, doses_A, doses_B) ==
    LET applied_A == [i \in DOMAIN doses_A |-> astype_int(RatLt(Whole(0), doses_A[i]))]
        applied_B == [i \in DOMAIN doses_B |-> astype_int(RatLt(Whole(0), doses_B[i]))]
        applied == [i \in DOMAIN doses_A |-> ClipToOne(applied_A[i] + applied_B[i])]
        cost_application ==
            [i \in DOMAIN doses_A |->
                Whole(PARAMS.application_cost_per_spray * sprays_vec[i] * applied[i])]
        cost_fungicide ==
            [i \in DOMAIN doses_A |->
                RatMul(Whole(PARAMS.chemical_cost_per_spray * sprays_vec[i]),
                       RatAdd(doses_A[i], doses_B[i]))]
        revenue == [i \in DOMAIN doses_A |-> Whole(PARAMS.wheat_price * yield_vec[i])]
    IN [i \in DOMAIN doses_A |->
           RatSub(RatSub(revenue[i], cost_application[i]), cost_fungicide[i])]

InitEcon ==
    /\ econ_args = None
    /\ profit = None
    /\ OdeIdle /\ KernelIdle /\ FungIdle /\ BetaIdle /\ ConfigIdle /\ DistIdle

CallEconomicYield ==
    /\ profit.kind = "None"
    /\ \E PARAMS \in Prices, len \in Lengths :
        \E yield_vec \in [1..len -> 0..MaxYield], sprays_vec \in [1..len -> 0..MaxSprayCount],
           doses \in [1..len -> DoseLevels] :
            /\ econ_args' = [kind |-> "economic_yield", PARAMS |-> PARAMS,
                             yield_vec |-> yield_vec, sprays_vec |-> sprays_vec,
                             doses |-> doses]
            /\ profit' = Array(economic_yield(PARAMS, yield_vec, sprays_vec, doses))
    /\ UNCHANGED <<odeVars, kernelVars, fungVars, betaVars, configVars, distVars>>

CallEconomicYieldMixture ==
    /\ profit.kind = "None"
    /\ \E PARAMS \in Prices, len \in Lengths :
        \E yield_vec \in [1..len -> 0..MaxYield], sprays_vec \in [1..len -> 0..MaxSprayCount],
           doses_A \in [1..len -> DoseLevels], doses_B \in [1..len -> DoseLevels] :
            /\ econ_args' = [kind |-> "economic_yield_mixture", PARAMS |-> PARAMS,
                             yield_vec |-> yield_vec, sprays_vec |-> sprays_vec,
                             doses_A |-> doses_A, doses_B |-> doses_B]
            /\ profit' = Array(economic_yield_mixture(PARAMS, yield_vec, sprays_vec,
                                                      doses_A, doses_B))
    /\ UNCHANGED <<odeVars, kernelVars, fungVars, betaVars, configVars, distVars>>

NextEcon == CallEconomicYield \/ CallEconomicYieldMixture

SpecEcon == InitEcon /\ [][NextEcon]_vars

\* revenue less the chemical cost of the given total dose, less cost
ProfitWith(i, dose, cost) ==
    LET P == econ_args.PARAMS IN
    RatSub(RatSub(Whole(P.wheat_price * econ_args.yield_vec[i]), Whole(cost)),
           RatMul(Whole(P.chemical_cost_per_spray * econ_args.sprays_vec[i]), dose))

ApplicationCost(i) == econ_args.PARAMS.application_cost_per_spray * econ_args.sprays_vec[i]

\* C18: economic_yield returns per entry wheat_price*yield less
\* chemical_cost_per_spray*sprays*dose less the application cost
\* application_cost_per_spray*sprays, which is charged only when dose > 0
\* (dose 0: profit = revenue); economic_yield_mixture charges the
\* application cost once when both doses are positive and not at all when
\* both are 0.
C18_ApplicationChargedOnceWhenApplied ==
    /\ econ_args.kind = "economic_yield" =>
        /\ Len(profit.value) = Len(econ_args.doses)
        /\ \A i \in 1..Len(econ_args.doses) :
            LET dose == econ_args.doses[i] IN
            /\ RatLt(Whole(0), dose) =>
                  profit.value[i] = ProfitWith(i, dose, ApplicationCost(i))
            /\ dose = Whole(0) =>
                  profit.value[i] = Whole(econ_args.PARAMS.wheat_price * econ_args.yield_vec[i])
    /\ econ_args.kind = "economic_yield_mixture" =>
        /\ Len(profit.value) = Len(econ_args.doses_A)
        /\ \A i \in 1..Len(econ_args.doses_A) :
            LET dose_A == econ_args.doses_A[i]
                dose_B == econ_args.doses_B[i]
            IN
            /\ (RatLt(Whole(0), dose_A) /\ RatLt(Whole(0), dose_B)) =>
                  profit.value[i] = ProfitWith(i, RatAdd(dose_A, dose_B), ApplicationCost(i))
            /\ (dose_A = Whole(0) /\ dose_B = Whole(0)) =>
                  profit.value[i] = Whole(econ_args.PARAMS.wheat_price * econ_args.yield_vec[i])

C18_Witness ==
    /\ econ_args.kind = "economic_yield_mixture"
    /\ Len(econ_args.doses_A) = 2
    /\ RatLt(Whole(0), econ_args.doses_A[1]) /\ RatLt(Whole(0), econ_args.doses_B[1])
    /\ econ_args.doses_A[2] = Whole(0) /\ econ_args.doses_B[2] = Whole(0)
    /\ econ_args.sprays_vec[1] = MaxSprayCount
    /\ econ_args.sprays_vec[2] > 0
    /\ RatLt(profit.value[1], profit.value[2])

====
